---- MODULE Spec2Model ----
(***************************************************************************)
(* Model of src/editor.js: the two Blockly workspaces ("mine" and          *)
(* "previous"), the diff engine show_diffs and the decorations it drives.  *)
(*                                                                         *)
(* Strings are sequences of one-character strings, so that the edge key    *)
(* built by get_connections (id + ' ' + name + ' ' + target) and the       *)
(* split(' ') of highlight_connections are computed, not assumed.          *)
(* A JavaScript Set is a duplicate-free sequence in insertion order.       *)
(* A JavaScript null / undefined object reference is the empty sequence.   *)
(***************************************************************************)
EXTENDS Naturals, Integers, Sequences, FiniteSets, TLC

VARIABLES mine_workspace, previous_workspace, pending,
          busy, scrollY, FIRE_QUEUE, batch,
          httpRequest_, requests, issued, alerted, monitors, hash, fetches

vars == <<mine_workspace, previous_workspace, pending,
          busy, scrollY, FIRE_QUEUE, batch,
          httpRequest_, requests, issued, alerted, monitors, hash, fetches>>

\* The workspaces and their queued change events.
docVars == <<mine_workspace, previous_workspace, pending>>

\* The viewports, the scroll flag and the event bus.
uiVars == <<busy, scrollY, FIRE_QUEUE, batch>>

\* The storage requests, the message shown last, the change monitors, the
\* hash of the page address and the block definitions being fetched.
netVars == <<httpRequest_, requests, issued, alerted, monitors, hash, fetches>>

\* ------------------------------------------------------------------ bounds

\* Most blocks one workspace holds.
MaxBlocks == 3

\* Most workspace changes whose events are still queued (show_diffs has not
\* run since).
MaxPending == 1

\* A viewport is scrolled down by at most this much (scrollY in -MaxScroll..0).
MaxScroll == 2

\* Most events that wait in the event queue.
MaxQueue == 2

\* Most storage requests made.
MaxRequests == 2

\* Most fetches of block definitions in flight.
MaxFetches == 1

\* ----------------------------------------------------------------- strings

Null == <<>>
SP == " "

S_prev == <<"^">>
S_next == <<"n", "e", "x", "t">>
S_none == <<"n", "o", "n", "e">>
S_DO == <<"D", "O">>
S_VAL == <<"V", "A", "L">>
S_NAME == <<"N", "A", "M", "E">>
S_VAR == <<"V", "A", "R">>
S_LABEL == <<"L", "A", "B", "E", "L">>

Range(s) == {s[i] : i \in 1..Len(s)}

\* Index of the first sep in s, 0 when there is none.
RECURSIVE IndexOf(_, _, _)
IndexOf(s, sep, from) ==
  IF from > Len(s) THEN 0
  ELSE IF s[from] = sep THEN from
  ELSE IndexOf(s, sep, from + 1)

\* String.prototype.split(sep) for a one-character separator.
RECURSIVE Split(_, _)
Split(s, sep) ==
  LET i == IndexOf(s, sep, 1) IN
  IF i = 0 THEN <<s>>
  ELSE <<SubSeq(s, 1, i - 1)>> \o Split(SubSeq(s, i + 1, Len(s)), sep)

\* sp[k] of a JavaScript array (0-based): undefined when out of range.
At(sp, k) == IF k + 1 <= Len(sp) THEN sp[k + 1] ELSE Null

\* -------------------------------------------------------- JavaScript Set

SetHas(set, elem) == \E i \in 1..Len(set) : set[i] = elem

SetAdd(set, elem) == IF SetHas(set, elem) THEN set ELSE Append(set, elem)

SetDelete(set, elem) == SelectSeq(set, LAMBDA e : e # elem)

\* ------------------------------------------------------------ set algebra

\* intersection without the setA.has(elem) test
IntersectionNoTest(setA, setB) == setB

RECURSIVE IntersectionLoop(_, _, _)
IntersectionLoop(setA, setB, acc) ==
  IF setB = <<>> THEN acc
  ELSE IntersectionLoop(setA, Tail(setB),
         IF SetHas(setA, Head(setB)) THEN SetAdd(acc, Head(setB)) ELSE acc)

\* The three sets after a call of intersection: the two arguments and the
\* new set it returns.
intersectionCall(setA, setB) ==
  [setA |-> setA, setB |-> setB, ret |-> IntersectionLoop(setA, setB, <<>>)]

intersection(setA, setB) == intersectionCall(setA, setB).ret

\* difference without the delete loop
DifferenceNoDelete(setA, setB) == setA

RECURSIVE DifferenceLoop(_, _)
DifferenceLoop(acc, setB) ==
  IF setB = <<>> THEN acc
  ELSE DifferenceLoop(SetDelete(acc, Head(setB)), Tail(setB))

\* difference deleting from setA itself
differenceCallInPlace(setA, setB) ==
  [setA |-> DifferenceLoop(setA, setB), setB |-> setB,
   ret |-> DifferenceLoop(setA, setB)]

\* The three sets after a call of difference: the two arguments and the
\* copy of setA (new Set(setA)) it deleted from and returns.
differenceCall(setA, setB) ==
  [setA |-> setA, setB |-> setB, ret |-> DifferenceLoop(setA, setB)]

difference(setA, setB) == differenceCall(setA, setB).ret

\* -------------------------------------------------- block definitions
\* The block types come from the editor's blocks.js, which is loaded at run
\* time; two shapes stand for them.  A block owns an optional previous and
\* next connection and an ordered inputList; an input owns an ordered
\* fieldRow and, unless it is a dummy input, one connection.

BlockTypes == {"stmt", "loop"}

Field(name, serializable, kind) ==
  [name |-> name, serializable |-> serializable, kind |-> kind]

Input(name, type, fieldRow) ==
  [name |-> name, type |-> type, fieldRow |-> fieldRow]

inputList(type) ==
  IF type = "stmt"
  THEN << Input(Null, "dummy", << Field(S_NAME, TRUE, "text") >>) >>
  ELSE << Input(Null, "dummy", << Field(S_LABEL, FALSE, "label"),
                                  Field(S_VAR, TRUE, "variable") >>),
          Input(S_DO, "statement", <<>>),
          Input(S_VAL, "value", <<>>) >>

\* Every field of a block type, in inputList / fieldRow order.
RECURSIVE FieldsOfInputs(_)
FieldsOfInputs(inputs) ==
  IF inputs = <<>> THEN <<>>
  ELSE Head(inputs).fieldRow \o FieldsOfInputs(Tail(inputs))

FieldsOf(type) == FieldsOfInputs(inputList(type))

FieldNames(type) == {f.name : f \in Range(FieldsOf(type))}

\* The slots of a block that carry a connection to a child: Null stands for
\* the block's own nextConnection, an input name for that input's connection.
\* (S_prev names the block's previousConnection, which has no child.)
Slots(type) ==
  {Null} \cup {i.name : i \in {j \in Range(inputList(type)) : j.type # "dummy"}}

\* The values a field of each kind can hold.
FieldValues(kind) ==
  IF kind = "text" THEN {"x", "y"}
  ELSE IF kind = "variable" THEN {"u", "v"}
  ELSE {"lbl"}

\* The field values of a block as it is created.
DefaultValue(type) ==
  [n \in FieldNames(type) |->
     LET f == CHOOSE g \in Range(FieldsOf(type)) : g.name = n
     IN IF f.kind = "text" THEN "x" ELSE IF f.kind = "variable" THEN "u" ELSE "lbl"]

\* The block ids the workspaces draw from: four where only the id sets
\* matter (SpecBlocks), two where connections or fields vary (SpecEdges,
\* SpecFields).  Ids and input names hold no space and differ from the
\* sentinels "next" and "none".
BlockIds == {<<"1">>, <<"2">>, <<"3">>, <<"4">>}

EdgeIds == {<<"a">>, <<"b">>}

\* ------------------------------------------------------------- workspace
\* A workspace is the sequence getAllBlocks() returns (here: in order of
\* creation).  A block record:
\*   id, type, target (slot -> child id or Null), value (field -> value),
\*   svgClasses (classes on pathObject.svgPath),
\*   y (getRelativeToSurfaceXY().y; every block is at x = 0),
\*   highlightPath (slot -> highlighted?), invalidInput (field -> class set?)

getBlockById(ws, id) ==
  IF \E i \in 1..Len(ws) : ws[i].id = id
  THEN ws[CHOOSE i \in 1..Len(ws) : ws[i].id = id]
  ELSE Null

IdsIn(ws) == {ws[i].id : i \in 1..Len(ws)}

\* The workspace with the block of that id replaced by block.
UpdateBlock(ws, id, block) ==
  [i \in 1..Len(ws) |-> IF ws[i].id = id THEN block ELSE ws[i]]

\* The id of the block whose connection targets id, or Null.
ParentId(ws, id) ==
  IF \E i \in 1..Len(ws) : \E s \in DOMAIN ws[i].target : ws[i].target[s] = id
  THEN ws[CHOOSE i \in 1..Len(ws) :
            \E s \in DOMAIN ws[i].target : ws[i].target[s] = id].id
  ELSE Null

NewBlock(id, type, value) ==
  [id |-> id, type |-> type,
   target |-> [s \in Slots(type) |-> Null],
   value |-> value,
   svgClasses |-> {},
   y |-> 1,
   highlightPath |-> [s \in Slots(type) \cup {S_prev} |-> FALSE],
   invalidInput |-> [n \in FieldNames(type) |-> FALSE]]

\* ------------------------------------------------------------ fingerprint

get_ids(blocks) ==
  LET RECURSIVE Loop(_, _)
      Loop(i, ids) ==
        IF i > Len(blocks) THEN ids
        ELSE Loop(i + 1, SetAdd(ids, blocks[i].id))
  IN Loop(1, <<>>)

Connection(type, input, slot, target, highlightPath) ==
  [type |-> type, input |-> input, slot |-> slot, target |-> target,
   highlightPath |-> highlightPath]

\* The connections of the inputs of a block, in inputList order: a statement
\* input's connection is a NEXT_STATEMENT, a value input's an INPUT_VALUE.
RECURSIVE InputConnections(_, _)
InputConnections(block, inputs) ==
  IF inputs = <<>> THEN <<>>
  ELSE LET input == Head(inputs) IN
       (IF input.type = "dummy" THEN <<>>
        ELSE << Connection(IF input.type = "statement" THEN "NEXT_STATEMENT"
                                                        ELSE "INPUT_VALUE",
                           input.name, input.name,
                           block.target[input.name],
                           block.highlightPath[input.name]) >>)
       \o InputConnections(block, Tail(inputs))

\* block.getConnections_(): previousConnection (its target is the parent
\* block), nextConnection, then the connections of the inputs.
getConnections_(ws, block) ==
  << Connection("PREVIOUS_STATEMENT", Null, S_prev, ParentId(ws, block.id),
                block.highlightPath[S_prev]),
     Connection("NEXT_STATEMENT", Null, Null, block.target[Null],
                block.highlightPath[Null]) >>
  \o InputConnections(block, inputList(block.type))

\* an edge key without the slot name
EdgeKeyNoSlot(block, connection) ==
  block.id \o <<SP>> \o
  (IF connection.target # Null THEN connection.target ELSE S_none)

\* The edge key of one connection of block.

EdgeKey(block, connection) ==
  LET name == IF connection.input # Null THEN connection.input ELSE S_next
      target_id == IF connection.target # Null THEN connection.target ELSE S_none
  IN block.id \o <<SP>> \o name \o <<SP>> \o target_id

\* no test of the connection type
IsDiffedAny(connection) == TRUE

\* The type test of get_connections, highlight_connections and
\* unhighlight_connections.
IsDiffed(connection) == connection.type = "NEXT_STATEMENT"

get_connections(ws, blocks) ==
  LET RECURSIVE Inner(_, _, _)
      Inner(block, connections, connections_set) ==
        IF connections = <<>> THEN connections_set
        ELSE Inner(block, Tail(connections),
               IF IsDiffed(Head(connections))
               THEN SetAdd(connections_set, EdgeKey(block, Head(connections)))
               ELSE connections_set)
      RECURSIVE Outer(_, _)
      Outer(i, connections_set) ==
        IF i > Len(blocks) THEN connections_set
        ELSE Outer(i + 1,
               Inner(blocks[i], getConnections_(ws, blocks[i]), connections_set))
  IN Outer(1, <<>>)

\* ------------------------------------------------------------ field state
\* A serialized field state: a primitive (kind "string") compares by value;
\* an object (a variable field's state) is a fresh object on every
\* saveState call, identified by ref.

Undefined == [kind |-> "undefined", v |-> "", ref |-> <<>>]

saveState(block, field, heap) ==
  IF field.kind = "variable"
  THEN [kind |-> "object", v |-> block.value[field.name],
        ref |-> <<heap>> \o field.name]
  ELSE [kind |-> "string", v |-> block.value[field.name], ref |-> <<>>]

\* obj[key] = value on an object kept as its entries in insertion order.
Put(obj, key, value) ==
  IF \E i \in 1..Len(obj) : obj[i].key = key
  THEN [i \in 1..Len(obj) |->
          IF obj[i].key = key THEN [key |-> key, value |-> value] ELSE obj[i]]
  ELSE Append(obj, [key |-> key, value |-> value])

\* obj[key]: undefined when the key is absent.
Get(obj, key) ==
  IF \E i \in 1..Len(obj) : obj[i].key = key
  THEN obj[CHOOSE i \in 1..Len(obj) : obj[i].key = key].value
  ELSE Undefined

saveFields(block, heap) ==
  LET RECURSIVE Loop(_, _)
      Loop(fieldRow, fields) ==
        IF fieldRow = <<>> THEN fields
        ELSE Loop(Tail(fieldRow),
               IF Head(fieldRow).serializable
               THEN Put(fields, Head(fieldRow).name,
                        saveState(block, Head(fieldRow), heap))
               ELSE fields)
  IN Loop(FieldsOf(block.type), <<>>)

\* a === b
StrictEquals(a, b) ==
  IF a.kind = "object" \/ b.kind = "object"
  THEN a.kind = b.kind /\ a.ref = b.ref
  ELSE a.kind = b.kind /\ a.v = b.v

\* ------------------------------------------------------------ decoration

ADDED == "blockly-ws-merge-highlight-mine-added"
REMOVED == "blockly-ws-merge-highlight-mine-removed"

\* unhighlightCommon removing one class only
unhighlightCommonOneClass(currentBlock) ==
  [currentBlock EXCEPT !.svgClasses = @ \ {REMOVED}]

unhighlightCommon(currentBlock) ==
  [currentBlock EXCEPT !.svgClasses = (@ \ {ADDED}) \ {REMOVED}]

highlightMineAdded(currentBlock) ==
  [currentBlock EXCEPT !.svgClasses = @ \cup {ADDED}]

highlightMineRemoved(currentBlock) ==
  [currentBlock EXCEPT !.svgClasses = @ \cup {REMOVED}]

\* connection.highlight() / connection.unhighlight() on the connection of
\* block in slot.
highlight(block, slot) == [block EXCEPT !.highlightPath[slot] = TRUE]

unhighlight(block, slot) == [block EXCEPT !.highlightPath[slot] = FALSE]

\* The state a show_diffs run carries: both workspaces as decorated so far,
\* and whether a TypeError has ended the run.
WsOf(st, side) == IF side = "mine" THEN st.mine ELSE st.previous

WithWs(st, side, ws) ==
  IF side = "mine" THEN [st EXCEPT !.mine = ws] ELSE [st EXCEPT !.previous = ws]

\* The block getBlockById(id) of one side becomes block; using a null block
\* is a TypeError.
OnBlock(st, side, id, block) ==
  IF st.threw THEN st
  ELSE IF getBlockById(WsOf(st, side), id) = Null THEN [st EXCEPT !.threw = TRUE]
  ELSE WithWs(st, side, UpdateBlock(WsOf(st, side), id, block))

\* no test of the input name
MatchesAnySlot(connection, input_name) == TRUE

\* Does the connection belong to the slot an edge key names?
MatchesSlot(connection, input_name) ==
  IF connection.input # Null THEN connection.input = input_name
  ELSE input_name = S_next

\* highlight_connections without the highlightPath guard, on a primitive
\* that toggles
HighlightToggles(block, connections, input_name) ==
  LET hit == {c \in Range(connections) : IsDiffed(c) /\ MatchesSlot(c, input_name)}
  IN [block EXCEPT !.highlightPath =
        [s \in DOMAIN @ |-> IF \E c \in hit : c.slot = s THEN ~@[s] ELSE @[s]]]

\* The loop over one block's connections in highlight_connections.
RECURSIVE HighlightLoop(_, _, _)
HighlightLoop(block, connections, input_name) ==
  IF connections = <<>> THEN block
  ELSE LET connection == Head(connections) IN
       HighlightLoop(
         IF IsDiffed(connection) /\ MatchesSlot(connection, input_name)
            /\ ~block.highlightPath[connection.slot]
         THEN highlight(block, connection.slot) ELSE block,
         Tail(connections), input_name)

\* The loop over one block's connections in unhighlight_connections.
RECURSIVE UnhighlightLoop(_, _, _)
UnhighlightLoop(block, connections, input_name) ==
  IF connections = <<>> THEN block
  ELSE LET connection == Head(connections) IN
       UnhighlightLoop(
         IF IsDiffed(connection) /\ MatchesSlot(connection, input_name)
            /\ block.highlightPath[connection.slot]
         THEN unhighlight(block, connection.slot) ELSE block,
         Tail(connections), input_name)

RECURSIVE highlight_connections(_, _, _)
highlight_connections(st, connections_diff, side) ==
  IF st.threw \/ connections_diff = <<>> THEN st
  ELSE LET sp == Split(Head(connections_diff), SP)
           from_id == At(sp, 0)
           input_name == At(sp, 1)
           this_workspace == WsOf(st, side)
           block == getBlockById(this_workspace, from_id)
           connections == getConnections_(this_workspace, block)
       IN highlight_connections(
            OnBlock(st, side, from_id, HighlightLoop(block, connections, input_name)),
            Tail(connections_diff), side)

RECURSIVE unhighlight_connections(_, _, _)
unhighlight_connections(st, connections_same, side) ==
  IF st.threw \/ connections_same = <<>> THEN st
  ELSE LET sp == Split(Head(connections_same), SP)
           from_id == At(sp, 0)
           input_name == At(sp, 1)
           this_workspace == WsOf(st, side)
           block == getBlockById(this_workspace, from_id)
           connections == getConnections_(this_workspace, block)
       IN unhighlight_connections(
            OnBlock(st, side, from_id, UnhighlightLoop(block, connections, input_name)),
            Tail(connections_same), side)

\* block.getField(key).getSvgRoot(): a TypeError when the block has no field
\* of that name.
OnField(st, side, id, key, invalid) ==
  IF st.threw THEN st
  ELSE LET block == getBlockById(WsOf(st, side), id) IN
       IF block = Null THEN [st EXCEPT !.threw = TRUE]
       ELSE IF key \notin FieldNames(block.type) THEN [st EXCEPT !.threw = TRUE]
       ELSE WithWs(st, side, UpdateBlock(WsOf(st, side), id,
                                         [block EXCEPT !.invalidInput[key] = invalid]))

apply_valid(st, side, id, key) == OnField(st, side, id, key, FALSE)

apply_invalid(st, side, id, key) == OnField(st, side, id, key, TRUE)

\* ------------------------------------------------------------- show_diffs
\* The locals of show_diffs, as functions of the two getAllBlocks() lists.

ids_added_mine(mine_blocks, previous_blocks) ==
  difference(get_ids(mine_blocks), get_ids(previous_blocks))

ids_removed_mine(mine_blocks, previous_blocks) ==
  difference(get_ids(previous_blocks), get_ids(mine_blocks))

ids_common(mine_blocks, previous_blocks) ==
  intersection(get_ids(mine_blocks), get_ids(previous_blocks))

connections_added_mine(mine_blocks, previous_blocks) ==
  difference(get_connections(mine_blocks, mine_blocks),
             get_connections(previous_blocks, previous_blocks))

connections_remove_mine(mine_blocks, previous_blocks) ==
  difference(get_connections(previous_blocks, previous_blocks),
             get_connections(mine_blocks, mine_blocks))

connections_common(mine_blocks, previous_blocks) ==
  intersection(get_connections(previous_blocks, previous_blocks),
               get_connections(mine_blocks, mine_blocks))

\* the loop over ids_added_mine clearing the field marks of each block too
RECURSIVE AddedLoopClearFields(_, _)
AddedLoopClearFields(st, ids) ==
  IF st.threw \/ ids = <<>> THEN st
  ELSE AddedLoopClearFields(
         OnBlock(st, "mine", Head(ids),
                 [highlightMineAdded(getBlockById(st.mine, Head(ids)))
                    EXCEPT !.invalidInput = [n \in DOMAIN @ |-> FALSE]]),
         Tail(ids))

\* for (const id of ids_added_mine) highlightMineAdded(...)
RECURSIVE AddedLoop(_, _)
AddedLoop(st, ids) ==
  IF st.threw \/ ids = <<>> THEN st
  ELSE AddedLoop(OnBlock(st, "mine", Head(ids),
                         highlightMineAdded(getBlockById(st.mine, Head(ids)))),
                 Tail(ids))

\* for (const id of ids_removed_mine) highlightMineRemoved(...)
RECURSIVE RemovedLoop(_, _)
RemovedLoop(st, ids) ==
  IF st.threw \/ ids = <<>> THEN st
  ELSE RemovedLoop(OnBlock(st, "previous", Head(ids),
                           highlightMineRemoved(getBlockById(st.previous, Head(ids)))),
                   Tail(ids))

\* for (const id of ids_common) unhighlightCommon(previous), (mine); both
\* lookups come before either call.
RECURSIVE CommonLoop(_, _)
CommonLoop(st, ids) ==
  IF st.threw \/ ids = <<>> THEN st
  ELSE LET previous_block == getBlockById(st.previous, Head(ids))
           mine_block == getBlockById(st.mine, Head(ids))
       IN CommonLoop(
            OnBlock(OnBlock(st, "previous", Head(ids), unhighlightCommon(previous_block)),
                    "mine", Head(ids), unhighlightCommon(mine_block)),
            Tail(ids))

\* previous_state[key] === value
Verdict(previous_value, value) == StrictEquals(previous_value, value)

\* for (const [key, value] of Object.entries(mine_state)) ...
RECURSIVE EntriesLoop(_, _, _, _)
EntriesLoop(st, id, entries, previous_state) ==
  IF st.threw \/ entries = <<>> THEN st
  ELSE LET key == Head(entries).key
           value == Head(entries).value
       IN EntriesLoop(
            IF Verdict(Get(previous_state, key), value)
            THEN apply_valid(apply_valid(st, "mine", id, key), "previous", id, key)
            ELSE apply_invalid(apply_invalid(st, "mine", id, key),
                               "previous", id, key),
            id, Tail(entries), previous_state)

\* for (const id of ids_common) { saveFields ...; for (entries) ... }
RECURSIVE FieldsLoop(_, _)
FieldsLoop(st, ids) ==
  IF st.threw \/ ids = <<>> THEN st
  ELSE LET id == Head(ids)
           previous_block == getBlockById(st.previous, id)
           mine_block == getBlockById(st.mine, id)
       IN IF mine_block = Null \/ previous_block = Null
          THEN [st EXCEPT !.threw = TRUE]
          ELSE FieldsLoop(
                 EntriesLoop(st, id, saveFields(mine_block, "mine"),
                             saveFields(previous_block, "previous")),
                 Tail(ids))

\* One run of show_diffs on the two workspaces: the workspaces as decorated,
\* and whether the run ended in a TypeError.
show_diffs(mine, previous) ==
  LET st0 == [mine |-> mine, previous |-> previous, threw |-> FALSE]
      st1 == AddedLoop(st0, ids_added_mine(mine, previous))
      st2 == RemovedLoop(st1, ids_removed_mine(mine, previous))
      st3 == CommonLoop(st2, ids_common(mine, previous))
      st4 == highlight_connections(st3, connections_added_mine(mine, previous), "mine")
      st5 == highlight_connections(st4, connections_remove_mine(mine, previous),
                                   "previous")
      st6 == unhighlight_connections(st5, connections_common(mine, previous), "mine")
      st7 == unhighlight_connections(st6, connections_common(mine, previous),
                                     "previous")
  IN FieldsLoop(st7, ids_common(mine, previous))

\* ------------------------------------------------------------- event bus
\* A workspace fires its events into one queue; fireNow later delivers the
\* queued events, in order, to the change listeners of the workspace each
\* came from.  An event: type, workspaceId, id (newElementId of a selected
\* event, blockId of a click) and echo (a viewport_change fired by the
\* scrollbar.set of the scroll listener).

VIEWPORT_CHANGE == "viewport_change"
SELECTED == "selected"
CLICK == "click"

Event(type, workspaceId, id, echo) ==
  [type |-> type, workspaceId |-> workspaceId, id |-> id, echo |-> echo]

Other(side) == IF side = "mine" THEN "previous" ELSE "mine"

\* The queue after a workspace fired event: the viewport changes of one
\* workspace that wait in the same queue are merged into one event.
fire(queue, event) ==
  LET Same(e) == /\ e.type = VIEWPORT_CHANGE
                 /\ event.type = VIEWPORT_CHANGE
                 /\ e.workspaceId = event.workspaceId
  IN IF \E i \in 1..Len(queue) : Same(queue[i])
     THEN [i \in 1..Len(queue) |->
             IF Same(queue[i]) THEN [queue[i] EXCEPT !.echo = @ \/ event.echo]
             ELSE queue[i]]
     ELSE Append(queue, event)

\* ---------------------------------------------------------------- scroll
\* The state a listener works on: the two workspaces, the flag busy, the
\* scrollY of both workspaces, the event queue, the workspaces the run
\* scrolled, and whether the run ended in a TypeError.

\* The scroll offset a viewport ends at when asked for v.
constrain(v) == IF v < -MaxScroll THEN -MaxScroll ELSE IF v > 0 THEN 0 ELSE v

\* The viewport of one workspace is moved to offset v; the workspace fires a
\* viewport_change event when its offset changed.
scrollTo(st, side, v, echo) ==
  LET to == constrain(v)
  IN [st EXCEPT !.scrollY[side] = to,
                !.scrolled = @ \cup {side},
                !.queue = IF to # st.scrollY[side]
                          THEN fire(@, Event(VIEWPORT_CHANGE, side, Null, echo))
                          ELSE @]

\* the loop taking the first block whatever its position
TopLeftLoopAnyBlock(all_blocks, this_scrollY, i) ==
  IF i > Len(all_blocks) THEN 0 ELSE i

\* Index of the first block of all_blocks below the top of the viewport, 0
\* when there is none.
RECURSIVE TopLeftLoop(_, _, _)
TopLeftLoop(all_blocks, this_scrollY, i) ==
  IF i > Len(all_blocks) THEN 0
  ELSE IF all_blocks[i].y > -this_scrollY THEN i
  ELSE TopLeftLoop(all_blocks, this_scrollY, i + 1)

\* scroll raising the flag only when it issues a scroll command
scrollFlagOnCommand(st, event) ==
  IF event.type # VIEWPORT_CHANGE THEN st
  ELSE IF st.busy THEN [st EXCEPT !.busy = FALSE]
  ELSE
    LET this == IF event.workspaceId = "mine" THEN "mine" ELSE "previous"
        other == Other(this)
        all_blocks == WsOf(st, this)
        i == TopLeftLoop(all_blocks, st.scrollY[this], 1)
        corresponding_block ==
          IF i = 0 THEN Null ELSE getBlockById(WsOf(st, other), all_blocks[i].id)
    IN IF corresponding_block # Null
       THEN scrollTo([st EXCEPT !.busy = TRUE], other,
                     all_blocks[i].y + st.scrollY[this] - corresponding_block.y,
                     TRUE)
       ELSE st

\* The change listener scroll.  other_workspace.scrollbar.set is given the
\* handle position that puts the corresponding block at the offset from the
\* top of the viewport that the top left block has in this workspace (at
\* scale 1): other scrollY = top_left_block_xy.y + this scrollY - left_xy.y.
scroll(st, event) ==
  IF event.type # VIEWPORT_CHANGE THEN st
  ELSE IF st.busy THEN [st EXCEPT !.busy = FALSE]
  ELSE
    LET this == IF event.workspaceId = "mine" THEN "mine" ELSE "previous"
        other == Other(this)
        all_blocks == WsOf(st, this)
        i == TopLeftLoop(all_blocks, st.scrollY[this], 1)
        \* getBlockById(undefined) finds no block
        corresponding_block ==
          IF i = 0 THEN Null ELSE getBlockById(WsOf(st, other), all_blocks[i].id)
        st1 == [st EXCEPT !.busy = TRUE]
    IN IF corresponding_block # Null
       THEN scrollTo(st1, other,
                     all_blocks[i].y + st.scrollY[this] - corresponding_block.y,
                     TRUE)
       ELSE st1

\* ------------------------------------------------------------- selection
\* The classes workspaceSearch puts on pathObject.svgPath.

SEARCH_HIGHLIGHT == "blockly-ws-search-highlight"
SEARCH_CURRENT == "blockly-ws-search-current"

\* workspaceSearch.unhighlightSearchGroup_(blocks) of one workspace.
unhighlightSearchGroup_(st, side, blocks) ==
  WithWs(st, side,
         [i \in 1..Len(WsOf(st, side)) |->
            IF WsOf(st, side)[i].id \in IdsIn(blocks)
            THEN [WsOf(st, side)[i] EXCEPT !.svgClasses = @ \ {SEARCH_HIGHLIGHT}]
            ELSE WsOf(st, side)[i]])

\* workspaceSearch.highlightSearchGroup_(blocks) of one workspace.
highlightSearchGroup_(st, side, blocks) ==
  WithWs(st, side,
         [i \in 1..Len(WsOf(st, side)) |->
            IF WsOf(st, side)[i].id \in IdsIn(blocks)
            THEN [WsOf(st, side)[i] EXCEPT !.svgClasses = @ \cup {SEARCH_HIGHLIGHT}]
            ELSE WsOf(st, side)[i]])

\* workspaceSearch.highlightCurrentSelection_(block) of one workspace.
highlightCurrentSelection_(st, side, block) ==
  WithWs(st, side,
         [i \in 1..Len(WsOf(st, side)) |->
            IF WsOf(st, side)[i].id = block.id
            THEN [WsOf(st, side)[i] EXCEPT !.svgClasses = @ \cup {SEARCH_CURRENT}]
            ELSE WsOf(st, side)[i]])

\* workspaceSearch.scrollToVisible_(block): a block above the top of the
\* viewport is brought to its top (the viewport is high enough to show every
\* block below its top).
scrollToVisible_(st, side, block) ==
  IF block.y < -st.scrollY[side] THEN scrollTo(st, side, -block.y, FALSE) ELSE st

\* the four calls with the group cleared last
SelectCorrespondentClearLast(st, side, newElementId) ==
  LET block == getBlockById(WsOf(st, side), newElementId)
  IN IF block = Null THEN [st EXCEPT !.threw = TRUE]
     ELSE LET st1 == highlightSearchGroup_(st, side, <<block>>)
              st2 == highlightCurrentSelection_(st1, side, block)
              st3 == scrollToVisible_(st2, side, block)
          IN unhighlightSearchGroup_(st3, side, WsOf(st3, side))

\* The body both selection listeners share: the block of that id in the
\* other workspace (side) is looked up and highlighted.  block.workspace of
\* a null block is a TypeError.
SelectCorrespondent(st, side, newElementId) ==
  LET block == getBlockById(WsOf(st, side), newElementId)
  IN IF block = Null THEN [st EXCEPT !.threw = TRUE]
     ELSE LET st1 == unhighlightSearchGroup_(st, side, WsOf(st, side))
              st2 == highlightSearchGroup_(st1, side, <<block>>)
              st3 == highlightCurrentSelection_(st2, side, block)
          IN scrollToVisible_(st3, side, block)

\* The change listener of mine_workspace.
myMineSelection(st, event) ==
  LET st1 == IF event.type = CLICK /\ event.id = Null
             THEN unhighlightSearchGroup_(st, "previous", st.previous)
             ELSE st
  IN IF event.type = SELECTED /\ event.id # Null
     THEN SelectCorrespondent(st1, "previous", event.id)
     ELSE st1

\* The change listener of previous_workspace.
myPreviousSelection(st, event) ==
  IF event.type = SELECTED /\ event.id # Null
  THEN SelectCorrespondent(st, "mine", event.id)
  ELSE st

\* The listeners of the workspace an event came from, in the order start
\* added them (show_diffs, added between the two, is the action ShowDiffs).
fireChangeListener(st, event) ==
  LET st1 == IF event.workspaceId = "mine" THEN myMineSelection(st, event)
             ELSE myPreviousSelection(st, event)
  IN scroll(st1, event)

\* ------------------------------------------------------ mergeable documents
\* A JSON value is known by its type: an object by its properties (a function
\* from property names), an array by its items, a primitive by its value.
\* ref stands for a property that holds the object stored under a key of
\* saved_blocks (obj.block = saved_blocks[id] shares the object; undefined
\* when saved_blocks has no such key).

S_block == <<"b", "l", "o", "c", "k">>
S_id == <<"i", "d">>
S_type == <<"t", "y", "p", "e">>
S_y == <<"y">>
S_fields == <<"f", "i", "e", "l", "d", "s">>
S_inputs == <<"i", "n", "p", "u", "t", "s">>
S_top_blocks == <<"t", "o", "p", "_", "b", "l", "o", "c", "k", "s">>
S_mergeable == <<"m", "e", "r", "g", "e", "a", "b", "l", "e">>
S_editor == <<"e", "d", "i", "t", "o", "r">>
S_name == <<"n", "a", "m", "e">>

JString(s) == [t |-> "string", s |-> s]
JNumber(n) == [t |-> "number", n |-> n]
JBoolean(b) == [t |-> "boolean", b |-> b]
JObject(props) == [t |-> "object", props |-> props]
JArray(items) == [t |-> "array", items |-> items]
JRef(key) == [t |-> "ref", key |-> key]

\* typeof v
typeof(v) == IF v.t \in {"array", "null", "ref"} THEN "object" ELSE v.t

\* An object without properties.
NoProps == [p \in {} |-> Null]

\* The object with one property.
Prop(name, value) == [p \in {name} |-> value]

\* The properties of both objects (no name is in both).
Props(a, b) ==
  [p \in DOMAIN a \cup DOMAIN b |-> IF p \in DOMAIN a THEN a[p] ELSE b[p]]

\* Blockly.serialization.blocks.save with addInputBlocks, addNextBlocks and
\* doFullSerialization: type, id, the coordinate y when coordinates are
\* asked for (every block is at x = 0), the
\* serializable fields, the inputs that hold a block and the next block.
\* The blocks below are saved without coordinates.
RECURSIVE save(_, _, _)
save(ws, block, addCoordinates) ==
  LET names == {f.name : f \in {g \in Range(FieldsOf(block.type)) : g.serializable}}
      kind(n) == (CHOOSE g \in Range(FieldsOf(block.type)) : g.name = n).kind
      fields == [n \in names |->
                   IF kind(n) = "variable"
                   THEN JObject(Prop(S_id, JString(block.value[n])))
                   ELSE JString(block.value[n])]
      held == {slot \in DOMAIN block.target \ {Null} : block.target[slot] # Null}
      inputs == [slot \in held |->
                   JObject(Prop(S_block,
                     save(ws, getBlockById(ws, block.target[slot]), FALSE)))]
      coords == IF addCoordinates THEN Prop(S_y, JNumber(block.y)) ELSE NoProps
      next == IF block.target[Null] # Null
              THEN Prop(S_next, JObject(Prop(S_block,
                     save(ws, getBlockById(ws, block.target[Null]), FALSE))))
              ELSE NoProps
  IN JObject(
       Props(Props(Prop(S_type, JString(block.type)), Prop(S_id, JString(block.id))),
       Props(coords,
       Props(IF names = {} THEN NoProps ELSE Prop(S_fields, JObject(fields)),
       Props(IF held = {} THEN NoProps ELSE Prop(S_inputs, JObject(inputs)),
             next)))))

\* replace_blocks: obj after the call.  Every property block is replaced by
\* { id }; every other property of type object is walked.
RECURSIVE replace_blocks(_)
replace_blocks(obj) ==
  JObject([p \in DOMAIN obj.props |->
             IF p = S_block
             THEN JObject(Prop(S_id, obj.props[p].props[S_id]))
             ELSE IF typeof(obj.props[p]) = "object"
             THEN replace_blocks(obj.props[p])
             ELSE obj.props[p]])

\* inject_blocks: obj after the call.  Every property block becomes the
\* object saved_blocks holds under its id; every other property that is an
\* object and not null is walked.  A primitive has no properties; the
\* properties of an array are its items.
RECURSIVE inject_blocks(_, _)
inject_blocks(obj, saved_blocks) ==
  LET walk(v) == IF typeof(v) = "object" /\ v.t # "null"
                 THEN inject_blocks(v, saved_blocks)
                 ELSE v
  IN IF obj.t = "object"
     THEN JObject([p \in DOMAIN obj.props |->
                     IF p = S_block
                     THEN JRef(obj.props[p].props[S_id].s)
                     ELSE walk(obj.props[p])])
     ELSE IF obj.t = "array"
     THEN JArray([i \in DOMAIN obj.items |-> walk(obj.items[i])])
     ELSE obj

\* workspace.getTopBlocks()
getTopBlocks(workspace) ==
  SelectSeq(workspace, LAMBDA b : ParentId(workspace, b.id) = Null)

\* save_mergeable
save_mergeable(workspace) ==
  LET save_blocks == [id \in IdsIn(workspace) |->
                        replace_blocks(save(workspace, getBlockById(workspace, id), TRUE))]
      top == getTopBlocks(workspace)
  IN JObject(
       Props(save_blocks,
       Props(Prop(S_top_blocks, JArray([i \in 1..Len(top) |-> JString(top[i].id)])),
             Prop(S_mergeable, JBoolean(TRUE)))))

\* The object JSON.parse gives for the text of a mergeable document: the
\* map save_mergeable returned for the blocks (kind "saved"), with an
\* editor entry added by the writer of the file (kind "mergeable").
parse(text) ==
  IF text.kind = "saved" THEN save_mergeable(text.doc)
  ELSE JObject(Props(save_mergeable(text.doc).props,
                     Prop(S_editor, JObject(Prop(S_name, JString("editor"))))))

\* Blockly.serialization.blocks.append: the blocks created for a state, the
\* block itself first, then the blocks of its inputs, then its next block.
\* A property block that saved_blocks shares is read through saved_blocks.
RECURSIVE append(_, _)
append(state, saved_blocks) ==
  LET type == state.props[S_type].s
      child(holder) ==
        LET b == holder.props[S_block]
        IN IF b.t = "ref" THEN saved_blocks.props[b.key] ELSE b
      inputs == IF S_inputs \in DOMAIN state.props
                THEN state.props[S_inputs].props ELSE NoProps
      fields == IF S_fields \in DOMAIN state.props
                THEN state.props[S_fields].props ELSE NoProps
      value == [n \in FieldNames(type) |->
                  IF n \in DOMAIN fields
                  THEN IF fields[n].t = "object" THEN fields[n].props[S_id].s
                       ELSE fields[n].s
                  ELSE DefaultValue(type)[n]]
      target == [slot \in Slots(type) |->
                   IF slot = Null
                   THEN IF S_next \in DOMAIN state.props
                        THEN child(state.props[S_next]).props[S_id].s ELSE Null
                   ELSE IF slot \in DOMAIN inputs
                        THEN child(inputs[slot]).props[S_id].s ELSE Null]
      block == [NewBlock(state.props[S_id].s, type, value) EXCEPT
                  !.target = target,
                  !.y = IF S_y \in DOMAIN state.props THEN state.props[S_y].n ELSE @]
      RECURSIVE InputBlocks(_)
      InputBlocks(list) ==
        IF list = <<>> THEN <<>>
        ELSE (IF Head(list).name \in DOMAIN inputs
              THEN append(child(inputs[Head(list).name]), saved_blocks)
              ELSE <<>>) \o InputBlocks(Tail(list))
  IN <<block>> \o InputBlocks(inputList(type))
       \o (IF S_next \in DOMAIN state.props
           THEN append(child(state.props[S_next]), saved_blocks) ELSE <<>>)

\* The then-callback of load_mergeable: inject_blocks on every key of
\* saved_blocks, then one append for every id of top_blocks; the blocks the
\* workspace holds afterwards.
loadedBlocks(saved_blocks) ==
  LET injected == JObject([k \in DOMAIN saved_blocks.props |->
                             inject_blocks(saved_blocks.props[k], saved_blocks)])
      top_blocks == injected.props[S_top_blocks].items
      RECURSIVE Loop(_)
      Loop(i) ==
        IF i > Len(top_blocks) THEN <<>>
        ELSE append(injected.props[top_blocks[i].s], injected) \o Loop(i + 1)
  IN Loop(1)

\* --------------------------------------------------------------- storage
\* A text (a response body, a file, the hash of the page address) is known by
\* its kind and, when it is a document, by the blocks it describes:
\*   "empty"      the empty text
\*   "malformed"  neither XML nor JSON parses it
\*   "key"        the key of a stored document (not XML)
\*   "doc"        the XML of a workspace
\*   "object"     JSON that is no saved workspace (no editor entry)
\*   "workspace"  the JSON of a workspace (editor.name set)
\*   "mergeable"  the JSON of the map save_mergeable returns, with an editor
\*                entry added
\*   "saved"      the JSON of the map save_mergeable returns

Text(kind, doc) == [kind |-> kind, doc |-> doc]

EmptyText == Text("empty", <<>>)

HTTPREQUEST_ERROR == "There was a problem with the request."
LINK_ALERT == "Share your blocks with this link"
HASH_ERROR == "doesn't correspond with any saved Blockly file"
XML_ERROR == "Could not load your saved file."

\* BlocklyStorage.httpRequest_ = null
NoRequest == 0

\* A new XMLHttpRequest, opened and sent.  id tells the objects apart.
XMLHttpRequest(id, name, workspace) ==
  [id |-> id, name |-> name, workspace |-> workspace, readyState |-> 1,
   status |-> 0, responseText |-> EmptyText]

\* BlocklyStorage.alert
alert(st, message) == [st EXCEPT !.alerts = Append(@, message)]

\* Blockly.Xml.domToText(Blockly.Xml.workspaceToDom(workspace)): the blocks
\* without their decorations.
workspaceToDom(workspace) ==
  [i \in 1..Len(workspace) |->
     [id |-> workspace[i].id, type |-> workspace[i].type,
      target |-> workspace[i].target, value |-> workspace[i].value,
      y |-> workspace[i].y]]

\* The blocks of one workspace are replaced (clear, then load); the
\* workspace fires change events for the blocks deleted and created.
replaceBlocks(st, side, blocks) ==
  [WithWs(st, side, blocks) EXCEPT
     !.changed = IF blocks = <<>> /\ WsOf(st, side) = <<>> THEN @
                 ELSE @ \cup {side}]

\* BlocklyStorage.monitorChanges_: a change listener that remembers the XML
\* of the workspace is added.
monitorChanges_(st, workspace) ==
  [st EXCEPT !.monitors =
     @ \cup {[workspace |-> workspace,
              startXmlText |-> workspaceToDom(WsOf(st, workspace))]}]

\* the listener of monitorChanges_ staying after it emptied the hash
changeKeepListener(st) ==
  LET stay == {m \in st.monitors :
                 \/ m.workspace \notin st.changed
                 \/ workspaceToDom(WsOf(st, m.workspace)) = m.startXmlText}
  IN [st EXCEPT !.hash = IF stay = st.monitors THEN @ ELSE EmptyText]

\* The change listeners monitorChanges_ added, run for the workspaces whose
\* blocks changed: a listener that sees another XML than the one it
\* remembers empties the hash and removes itself.
change(st) ==
  LET stay == {m \in st.monitors :
                 \/ m.workspace \notin st.changed
                 \/ workspaceToDom(WsOf(st, m.workspace)) = m.startXmlText}
  IN [st EXCEPT !.monitors = stay,
                !.hash = IF stay = st.monitors THEN @ ELSE EmptyText]

\* BlocklyStorage.loadXml_: Blockly.Xml.textToDom throws on text that is not
\* XML.
loadXml_(st, xml, workspace) ==
  IF xml.kind # "doc" THEN alert(st, XML_ERROR)
  ELSE replaceBlocks(st, workspace, xml.doc)

\* handleRequest_ installing the change monitor whatever the status
handleRequestMonitorAlways(st) ==
  IF st.httpRequest_ = NoRequest THEN [st EXCEPT !.threw = TRUE]
  ELSE
    LET r == CHOOSE q \in st.requests : q.id = st.httpRequest_
        data == r.responseText
        st1 ==
          IF r.status # 200 THEN alert(st, HTTPREQUEST_ERROR)
          ELSE IF r.name = "xml"
          THEN alert([st EXCEPT !.hash = data], LINK_ALERT)
          ELSE IF r.name = "key"
          THEN IF data.kind = "empty" THEN alert(st, HASH_ERROR)
               ELSE loadXml_(st, data, r.workspace)
          ELSE st
    IN IF r.readyState # 4 THEN st
       ELSE [monitorChanges_(st1, r.workspace) EXCEPT !.httpRequest_ = NoRequest]

\* BlocklyStorage.handleRequest_, the onreadystatechange callback of every
\* request; it reads the request BlocklyStorage.httpRequest_ refers to.
handleRequest_(st) ==
  IF st.httpRequest_ = NoRequest THEN [st EXCEPT !.threw = TRUE]
  ELSE
    LET r == CHOOSE q \in st.requests : q.id = st.httpRequest_
        data == r.responseText
        st1 ==
          IF r.status # 200 THEN alert(st, HTTPREQUEST_ERROR)
          ELSE
            LET st2 ==
                  IF r.name = "xml"
                  THEN alert([st EXCEPT !.hash = data], LINK_ALERT)
                  ELSE IF r.name = "key"
                  THEN IF data.kind = "empty" THEN alert(st, HASH_ERROR)
                       ELSE loadXml_(st, data, r.workspace)
                  ELSE st
            IN monitorChanges_(st2, r.workspace)
    IN IF r.readyState # 4 THEN st
       ELSE [st1 EXCEPT !.httpRequest_ = NoRequest]

\* A request reaches readyState 4 with that status and body, and its
\* onreadystatechange callback runs.
Done(st, id, status, responseText) ==
  LET r == CHOOSE q \in st.requests : q.id = id
      done == [r EXCEPT !.readyState = 4, !.status = status,
                        !.responseText = responseText]
  IN handleRequest_([st EXCEPT !.requests = (@ \ {r}) \cup {done}])

\* httpRequest_.abort(): a request in flight ends with readyState 4 and
\* status 0, and its onreadystatechange callback runs.
abort(st, id) ==
  IF \E q \in st.requests : q.id = id /\ q.readyState < 4
  THEN Done(st, id, 0, EmptyText)
  ELSE st

\* makeRequest_ without the abort of the request in flight
makeRequestNoAbort(st, name, workspace) ==
  LET id == st.issued + 1
  IN handleRequest_([st EXCEPT !.issued = id, !.httpRequest_ = id,
                               !.requests = @ \cup {XMLHttpRequest(id, name, workspace)}])

\* BlocklyStorage.makeRequest_; open() calls onreadystatechange with
\* readyState 1.
makeRequest_(st, name, workspace) ==
  LET st1 == IF st.httpRequest_ # NoRequest THEN abort(st, st.httpRequest_)
             ELSE st
      id == st1.issued + 1
  IN handleRequest_([st1 EXCEPT !.issued = id, !.httpRequest_ = id,
                                !.requests = @ \cup {XMLHttpRequest(id, name, workspace)}])

\* fetch('editors/' + name + '/blocks.js'): the load goes on when the block
\* definitions arrive.
fetch(st, workspace, json) ==
  [st EXCEPT !.fetches = @ \cup {[workspace |-> workspace, json |-> json]}]

\* load_mergeable, for the text saved_blocks was parsed from:
\* saved_blocks.editor.name of a document without an editor entry is a
\* TypeError; otherwise the block definitions are fetched.
load_mergeable(st, text, workspace) ==
  IF S_editor \notin DOMAIN parse(text).props THEN [st EXCEPT !.threw = TRUE]
  ELSE fetch(st, workspace, text)

\* load_json_text_to_workspace: JSON.parse throws a SyntaxError on text that
\* is not JSON; json.editor.name of JSON without an editor entry is a
\* TypeError.
load_json_text_to_workspace(st, workspace, text) ==
  IF text.kind \notin {"object", "workspace", "mergeable", "saved"}
  THEN [st EXCEPT !.threw = TRUE]
  ELSE LET st1 == replaceBlocks(st, workspace, <<>>)
       IN IF text.kind \in {"mergeable", "saved"}
          THEN load_mergeable(st1, text, workspace)
          ELSE IF text.kind = "object" THEN [st1 EXCEPT !.threw = TRUE]
          ELSE fetch(st1, workspace, text)

\* The then-callback of a fetch of block definitions: a mergeable document
\* is injected and appended, a workspace document is loaded by
\* Blockly.serialization.workspaces.load; both clear the workspace first.
loaded(st, f) ==
  replaceBlocks(st, f.workspace,
                IF f.json.kind = "workspace" THEN f.json.doc
                ELSE loadedBlocks(parse(f.json)))

\* ---------------------------------------------------------------- actions

Sides == {"mine", "previous"}

Ws(side) == IF side = "mine" THEN mine_workspace ELSE previous_workspace

\* A change of one workspace; its change event is queued for show_diffs
\* and reaches the listeners monitorChanges_ added.
Change(side, ws) ==
  /\ pending < MaxPending
  /\ pending' = pending + 1
  /\ IF side = "mine"
     THEN mine_workspace' = ws /\ UNCHANGED previous_workspace
     ELSE previous_workspace' = ws /\ UNCHANGED mine_workspace
  /\ \E st \in {change(WithWs([mine |-> mine_workspace,
                                 previous |-> previous_workspace,
                                 monitors |-> monitors, hash |-> hash,
                                 changed |-> {side}], side, ws))} :
       /\ monitors' = st.monitors
       /\ hash' = st.hash
  /\ UNCHANGED <<uiVars, httpRequest_, requests, issued, alerted, fetches>>

\* The ids of block id and of every block below it.
RECURSIVE Descendants(_, _)
Descendants(ws, id) ==
  LET block == getBlockById(ws, id)
      children == {block.target[s] : s \in DOMAIN block.target} \ {Null}
  IN {id} \cup UNION {Descendants(ws, c) : c \in children}

\* A block is created (dragged from the toolbox, or loaded).
AddBlock(side, id, type) ==
  /\ Len(Ws(side)) < MaxBlocks
  /\ id \notin IdsIn(Ws(side))
  /\ Change(side, Append(Ws(side), NewBlock(id, type, DefaultValue(type))))

\* block.dispose(): the block and the blocks below it go; the connection that
\* held it is left unattached.
RemoveBlock(side, id) ==
  /\ id \in IdsIn(Ws(side))
  /\ LET gone == Descendants(Ws(side), id)
         kept == SelectSeq(Ws(side), LAMBDA b : b.id \notin gone)
         Detach(b) == [b EXCEPT !.target = [s \in DOMAIN @ |->
                                              IF @[s] = id THEN Null ELSE @[s]]]
     IN Change(side, [i \in 1..Len(kept) |-> Detach(kept[i])])

\* The connection of src in a statement slot is attached to block tgt.
Connect(side, src, slot, tgt) ==
  /\ src \in IdsIn(Ws(side)) /\ tgt \in IdsIn(Ws(side))
  /\ LET block == getBlockById(Ws(side), src)
     IN /\ slot \in Slots(block.type)
        /\ slot # S_VAL
        /\ block.target[slot] = Null
        /\ ParentId(Ws(side), tgt) = Null
        /\ src \notin Descendants(Ws(side), tgt)
        /\ Change(side, UpdateBlock(Ws(side), src, [block EXCEPT !.target[slot] = tgt]))

Disconnect(side, src, slot) ==
  /\ src \in IdsIn(Ws(side))
  /\ LET block == getBlockById(Ws(side), src)
     IN /\ slot \in Slots(block.type)
        /\ block.target[slot] # Null
        /\ Change(side, UpdateBlock(Ws(side), src, [block EXCEPT !.target[slot] = Null]))

\* The user edits a field.
SetFieldValue(side, id, name, v) ==
  /\ id \in IdsIn(Ws(side))
  /\ LET block == getBlockById(Ws(side), id)
     IN /\ name \in FieldNames(block.type)
        /\ \E f \in Range(FieldsOf(block.type)) :
             f.name = name /\ f.kind # "label" /\ v \in FieldValues(f.kind)
        /\ block.value[name] # v
        /\ Change(side, UpdateBlock(Ws(side), id, [block EXCEPT !.value[name] = v]))

\* The change listener show_diffs runs (it is called for every event of
\* either workspace, UI events included).
ShowDiffs ==
  \E st \in {show_diffs(mine_workspace, previous_workspace)} :
    /\ mine_workspace' = st.mine
    /\ previous_workspace' = st.previous
    /\ pending' = 0
    /\ UNCHANGED <<uiVars, netVars>>

\* The user drags a block to another place.
MoveBlock(side, id, y) ==
  /\ id \in IdsIn(Ws(side))
  /\ LET block == getBlockById(Ws(side), id)
     IN /\ block.y # y
        /\ Change(side, UpdateBlock(Ws(side), id, [block EXCEPT !.y = y]))

\* The user scrolls one workspace (wheel, drag or scrollbar): the workspace
\* fires a viewport_change event.  No input is handled while fireNow runs.
UserScroll(side, v) ==
  /\ batch = <<>>
  /\ v # scrollY[side]
  /\ scrollY' = [scrollY EXCEPT ![side] = v]
  /\ FIRE_QUEUE' = fire(FIRE_QUEUE, Event(VIEWPORT_CHANGE, side, Null, FALSE))
  /\ UNCHANGED <<docVars, busy, batch, netVars>>

\* fireNow takes the queued events for delivery.
fireNow ==
  /\ batch = <<>>
  /\ FIRE_QUEUE # <<>>
  /\ batch' = FIRE_QUEUE
  /\ FIRE_QUEUE' = <<>>
  /\ UNCHANGED <<docVars, busy, scrollY, netVars>>

\* What the listeners work on, as the variables hold it.
UI ==
  [mine |-> mine_workspace, previous |-> previous_workspace, busy |-> busy,
   scrollY |-> scrollY, queue |-> FIRE_QUEUE, scrolled |-> {}, threw |-> FALSE]

\* The user selects a block of one workspace, or unselects (id Null).
Select(side, id) ==
  /\ batch = <<>>
  /\ Len(FIRE_QUEUE) < MaxQueue
  /\ id \in IdsIn(Ws(side)) \cup {Null}
  /\ FIRE_QUEUE' = fire(FIRE_QUEUE, Event(SELECTED, side, id, FALSE))
  /\ UNCHANGED <<docVars, busy, scrollY, batch, netVars>>

\* The user clicks a block of one workspace, or its background (id Null).
Click(side, id) ==
  /\ batch = <<>>
  /\ Len(FIRE_QUEUE) < MaxQueue
  /\ id \in IdsIn(Ws(side)) \cup {Null}
  /\ FIRE_QUEUE' = fire(FIRE_QUEUE, Event(CLICK, side, id, FALSE))
  /\ UNCHANGED <<docVars, busy, scrollY, batch, netVars>>

\* The next event of the batch is delivered to the listeners of its
\* workspace.
Deliver ==
  /\ batch # <<>>
  /\ \E st \in {fireChangeListener(UI, Head(batch))} :
       /\ mine_workspace' = st.mine
       /\ previous_workspace' = st.previous
       /\ busy' = st.busy
       /\ scrollY' = st.scrollY
       /\ FIRE_QUEUE' = st.queue
  /\ batch' = Tail(batch)
  /\ UNCHANGED <<pending, netVars>>

\* What the storage functions work on, as the variables hold it; alerts are
\* the messages of the run, changed the workspaces whose blocks it changed.
Net ==
  [mine |-> mine_workspace, previous |-> previous_workspace,
   httpRequest_ |-> httpRequest_, requests |-> requests, issued |-> issued,
   monitors |-> monitors, hash |-> hash, fetches |-> fetches,
   alerts |-> <<>>, changed |-> {}, threw |-> FALSE]

\* The variables take what a run of a storage function left, after the
\* change events of the run reached the monitors.
Ran(st) ==
  /\ st.changed # {} => pending < MaxPending
  /\ pending' = IF st.changed # {} THEN pending + 1 ELSE pending
  /\ mine_workspace' = st.mine
  /\ previous_workspace' = st.previous
  /\ httpRequest_' = st.httpRequest_
  /\ requests' = st.requests
  /\ issued' = st.issued
  /\ alerted' = IF st.alerts = <<>> THEN alerted ELSE st.alerts[Len(st.alerts)]
  /\ monitors' = change(st).monitors
  /\ hash' = change(st).hash
  /\ fetches' = st.fetches
  /\ UNCHANGED uiVars

\* BlocklyStorage.link (name "xml") or BlocklyStorage.retrieveXml (name
\* "key") is called for one workspace.
MakeRequest(name, workspace) ==
  /\ issued < MaxRequests
  /\ Ran(makeRequest_(Net, name, workspace))

\* The document the server and the files hold.
StoredDocs == {<<NewBlock(<<"a">>, "stmt", DefaultValue("stmt"))>>}

\* The bodies a response carries.
ResponseTexts ==
  {EmptyText, Text("malformed", <<>>), Text("key", <<>>)}
  \cup {Text("doc", d) : d \in StoredDocs}

\* The texts a file or a fetched document holds.
JsonTexts ==
  {Text("malformed", <<>>), Text("object", <<>>)}
  \cup {Text("workspace", d) : d \in StoredDocs}
  \cup {Text("mergeable", d) : d \in StoredDocs}
  \cup {Text("saved", d) : d \in StoredDocs}

\* The response to a request in flight arrives.
Respond(id, status, responseText) ==
  /\ \E q \in requests : q.id = id /\ q.readyState < 4
  /\ Ran(Done(Net, id, status, responseText))

\* A file is chosen, or a document of the website arrives, for one
\* workspace.
LoadJson(workspace, text) ==
  /\ Cardinality(fetches) < MaxFetches
  /\ Ran(load_json_text_to_workspace(Net, workspace, text))

\* The block definitions arrive and the document is loaded (definitions
\* that never arrive leave the fetch waiting).
FetchDone(f) ==
  /\ f \in fetches
  /\ Ran(loaded([Net EXCEPT !.fetches = @ \ {f}], f))

\* No request was made, no message shown, no monitor installed.
InitNet ==
  /\ httpRequest_ = NoRequest
  /\ requests = {}
  /\ issued = 0
  /\ alerted = ""
  /\ monitors = {}
  /\ hash = EmptyText
  /\ fetches = {}

Init ==
  /\ mine_workspace = <<>>
  /\ previous_workspace = <<>>
  /\ pending = 0
  /\ busy = FALSE
  /\ scrollY = [side \in Sides |-> 0]
  /\ FIRE_QUEUE = <<>>
  /\ batch = <<>>
  /\ InitNet

\* Blocks come and go in both workspaces (one block type, four ids).
NextBlocks ==
  \/ \E side \in Sides, id \in BlockIds : AddBlock(side, id, "stmt")
  \/ \E side \in Sides, id \in BlockIds : RemoveBlock(side, id)
  \/ ShowDiffs

SpecBlocks == Init /\ [][NextBlocks]_vars

\* Blocks of both types come, go, and are connected and disconnected.
NextEdges ==
  \/ \E side \in Sides, id \in EdgeIds, type \in BlockTypes : AddBlock(side, id, type)
  \/ \E side \in Sides, id \in EdgeIds : RemoveBlock(side, id)
  \/ \E side \in Sides, src \in EdgeIds, slot \in {Null, S_DO}, tgt \in EdgeIds :
       Connect(side, src, slot, tgt)
  \/ \E side \in Sides, src \in EdgeIds, slot \in {Null, S_DO} :
       Disconnect(side, src, slot)
  \/ ShowDiffs

SpecEdges == Init /\ [][NextEdges]_vars

\* Blocks of both types come and go and their fields are edited.
NextFields ==
  \/ \E side \in Sides, id \in EdgeIds, type \in BlockTypes : AddBlock(side, id, type)
  \/ \E side \in Sides, id \in EdgeIds : RemoveBlock(side, id)
  \/ \E side \in Sides, id \in EdgeIds, name \in {S_NAME, S_VAR},
        v \in FieldValues("text") \cup FieldValues("variable") :
       SetFieldValue(side, id, name, v)
  \/ ShowDiffs

SpecFields == Init /\ [][NextFields]_vars

\* Blocks come and are moved, and both workspaces are scrolled.
NextScroll ==
  \/ \E side \in Sides, id \in EdgeIds : AddBlock(side, id, "stmt")
  \/ \E side \in Sides, id \in EdgeIds, y \in 1..MaxScroll : MoveBlock(side, id, y)
  \/ ShowDiffs
  \/ \E side \in Sides, v \in -MaxScroll..0 : UserScroll(side, v)
  \/ fireNow
  \/ Deliver

SpecScroll == Init /\ [][NextScroll]_vars

\* The documents the selection runs start from: up to two blocks.
SelectionDocs ==
  LET B(id) == NewBlock(id, "stmt", DefaultValue("stmt"))
  IN {<<>>} \cup {<<B(i)>> : i \in EdgeIds}
     \cup {<<B(ij[1]), B(ij[2])>> :
             ij \in {x \in EdgeIds \X EdgeIds : x[1] # x[2]}}

\* Both workspaces hold a document, show_diffs has run, each viewport is at
\* the top or was scrolled down, and every event has been delivered.
InitSelection ==
  /\ \E m \in SelectionDocs, p \in SelectionDocs :
       /\ mine_workspace = show_diffs(m, p).mine
       /\ previous_workspace = show_diffs(m, p).previous
  /\ pending = 0
  /\ busy = FALSE
  /\ scrollY \in [Sides -> {0, -MaxScroll}]
  /\ FIRE_QUEUE = <<>>
  /\ batch = <<>>
  /\ InitNet

\* Blocks are selected and clicked in both workspaces.
NextSelection ==
  \/ \E side \in Sides, id \in EdgeIds \cup {Null} : Select(side, id)
  \/ \E side \in Sides, id \in EdgeIds \cup {Null} : Click(side, id)
  \/ fireNow
  \/ Deliver

SpecSelection == InitSelection /\ [][NextSelection]_vars

\* Documents are loaded from files and from the storage server.
NextStorage ==
  \/ \E name \in {"xml", "key"}, workspace \in Sides : MakeRequest(name, workspace)
  \/ \E id \in 1..MaxRequests, status \in {200, 500}, text \in ResponseTexts :
       Respond(id, status, text)
  \/ \E workspace \in Sides, text \in JsonTexts : LoadJson(workspace, text)
  \/ \E f \in fetches : FetchDone(f)
  \/ \E side \in Sides, y \in 1..MaxScroll : MoveBlock(side, <<"a">>, y)
  \/ ShowDiffs

SpecStorage == Init /\ [][NextStorage]_vars

\* ============================================================ properties

Mine == mine_workspace
Previous == previous_workspace

\* show_diffs has run since the last change of either workspace.
Synced == pending = 0

\* C1: the three id sets show_diffs computes are added = mine \ previous,
\* removed = previous \ mine and common = mine /\ previous; they are pairwise
\* disjoint and their union is the union of both workspaces' ids.
C1_IdSetsPartition ==
  LET added == Range(ids_added_mine(Mine, Previous))
      removed == Range(ids_removed_mine(Mine, Previous))
      common == Range(ids_common(Mine, Previous))
  IN /\ added = IdsIn(Mine) \ IdsIn(Previous)
     /\ removed = IdsIn(Previous) \ IdsIn(Mine)
     /\ common = IdsIn(Mine) \cap IdsIn(Previous)
     /\ added \cap removed = {} /\ added \cap common = {} /\ removed \cap common = {}
     /\ added \cup removed \cup common = IdsIn(Mine) \cup IdsIn(Previous)

\* mine {1,2,3} and previous {2,3,4}: added {1}, removed {4}, common {2,3}.
C1_Witness ==
  /\ Synced
  /\ IdsIn(Mine) = {<<"1">>, <<"2">>, <<"3">>}
  /\ IdsIn(Previous) = {<<"2">>, <<"3">>, <<"4">>}
  /\ Range(ids_added_mine(Mine, Previous)) = {<<"1">>}
  /\ Range(ids_removed_mine(Mine, Previous)) = {<<"4">>}
  /\ Range(ids_common(Mine, Previous)) = {<<"2">>, <<"3">>}

\* C2: on the id sets of the two workspaces (every pair of sets of at most
\* MaxBlocks keys, empty ones included, in every insertion order)
\* intersection(A,B) and intersection(B,A) hold the same elements, and
\* difference(A,B) shares no element with B.
C2_SetAlgebra ==
  LET A == get_ids(Mine)
      B == get_ids(Previous)
  IN /\ Range(intersection(A, B)) = Range(intersection(B, A))
     /\ Range(difference(A, B)) \cap Range(B) = {}
     /\ Range(difference(B, A)) \cap Range(A) = {}
     /\ (A = <<>> \/ B = <<>>) => intersection(A, B) = <<>>
     /\ A = <<>> => difference(A, B) = <<>>

\* Two overlapping sets whose intersections differ in order only.
C2_Witness ==
  LET A == get_ids(Mine)
      B == get_ids(Previous)
  IN /\ Len(intersection(A, B)) = 2
     /\ intersection(A, B) # intersection(B, A)
     /\ difference(A, B) # <<>>
     /\ difference(B, A) # <<>>

\* The workspace with one decoration of one block flipped.
Flips(ws) ==
  {UpdateBlock(ws, id, [getBlockById(ws, id) EXCEPT !.svgClasses =
                          IF c \in @ THEN @ \ {c} ELSE @ \cup {c}]) :
     id \in IdsIn(ws), c \in {ADDED, REMOVED}}
  \cup UNION {{UpdateBlock(ws, id, [getBlockById(ws, id) EXCEPT !.highlightPath[s] = ~@]) :
                 s \in DOMAIN getBlockById(ws, id).highlightPath} : id \in IdsIn(ws)}
  \cup UNION {{UpdateBlock(ws, id, [getBlockById(ws, id) EXCEPT !.invalidInput[n] = ~@]) :
                 n \in DOMAIN getBlockById(ws, id).invalidInput} : id \in IdsIn(ws)}

\* The decoration states a run is started from: every reachable one (stale
\* by up to MaxPending changes), and every state a run has left with any
\* single decoration flipped by other code.
StartStates ==
  {<<Mine, Previous>>}
  \cup (IF Synced
        THEN {<<m, Previous>> : m \in Flips(Mine)}
             \cup {<<Mine, p>> : p \in Flips(Previous)}
        ELSE {})

\* C3: a second show_diffs run with no change in between leaves the
\* decoration state the first run produced, whatever the starting state.
C3_Idempotent ==
  \A start \in StartStates :
    LET once == show_diffs(start[1], start[2])
        twice == show_diffs(once.mine, once.previous)
    IN twice.mine = once.mine /\ twice.previous = once.previous

\* A stale state that a run changes, on connected blocks.
C3_Witness ==
  LET once == show_diffs(Mine, Previous)
  IN /\ pending > 0
     /\ once.mine # Mine
     /\ once.previous # Previous
     /\ \E i \in 1..Len(Mine) : Mine[i].target[Null] # Null
     /\ \E i \in 1..Len(once.mine) : once.mine[i].highlightPath[Null]

\* Deep (structural) equality of two serialized field states, the comparison
\* the specification asks for.
DeepEquals(a, b) == a.kind = b.kind /\ a.v = b.v

\* The names of the serializable fields of a block.
SerializableNames(block) == {f.name : f \in {g \in Range(FieldsOf(block.type)) : g.serializable}}

\* The ids both workspaces hold.
CommonIds == IdsIn(Mine) \cap IdsIn(Previous)

\* C4: after a run, a serializable field present on both sides of a common
\* block is free of the invalid mark on both sides when the two serialized
\* values are equal, and carries it on both sides when they differ.
C4_FieldMarksFollowEquality ==
  Synced =>
    \A id \in CommonIds :
      LET mine_block == getBlockById(Mine, id)
          previous_block == getBlockById(Previous, id)
      IN \A name \in SerializableNames(mine_block) \cap SerializableNames(previous_block) :
           LET equal == DeepEquals(Get(saveFields(mine_block, "mine"), name),
                                   Get(saveFields(previous_block, "previous"), name))
           IN /\ mine_block.invalidInput[name] = ~equal
              /\ previous_block.invalidInput[name] = ~equal

\* C5: after a run, a serializable field of a common block that exists on
\* one side only is reported invalid (on the side that has it).
C5_OneSidedFieldInvalid ==
  Synced =>
    \A id \in CommonIds :
      LET mine_block == getBlockById(Mine, id)
          previous_block == getBlockById(Previous, id)
      IN /\ \A name \in SerializableNames(mine_block) \ FieldNames(previous_block.type) :
              mine_block.invalidInput[name]
         /\ \A name \in SerializableNames(previous_block) \ FieldNames(mine_block.type) :
              previous_block.invalidInput[name]

\* C6: after a run, a field of a common block whose two serialized states are
\* distinct objects with equal structure is not marked invalid.
C6_DeepEqualObjectsValid ==
  Synced =>
    \A id \in CommonIds :
      LET mine_block == getBlockById(Mine, id)
          previous_block == getBlockById(Previous, id)
      IN \A name \in SerializableNames(mine_block) \cap SerializableNames(previous_block) :
           LET mine_value == Get(saveFields(mine_block, "mine"), name)
               previous_value == Get(saveFields(previous_block, "previous"), name)
           IN (/\ mine_value.kind = "object" /\ previous_value.kind = "object"
               /\ mine_value.ref # previous_value.ref
               /\ DeepEquals(previous_value, mine_value))
              => ~mine_block.invalidInput[name] /\ ~previous_block.invalidInput[name]

\* The slots of a block type whose connection is a next-statement connection.
NextStatementSlots(type) ==
  {Null} \cup {i.name : i \in {j \in Range(inputList(type)) : j.type = "statement"}}

\* The next-statement connections of a workspace: <<block index, slot>>.
NextStatementConnections(ws) ==
  UNION {{<<i, s>> : s \in NextStatementSlots(ws[i].type)} : i \in 1..Len(ws)}

\* The edge key of a next-statement connection as the specification words it:
\* source id, input name or "next", target id or "none".
KeyOf(ws, c) ==
  ws[c[1]].id \o <<SP>>
  \o (IF c[2] = Null THEN <<"n", "e", "x", "t">> ELSE c[2]) \o <<SP>>
  \o (IF ws[c[1]].target[c[2]] = Null THEN <<"n", "o", "n", "e">>
      ELSE ws[c[1]].target[c[2]])

HasEdge(ws, src, slot, tgt) ==
  \E i \in 1..Len(ws) :
    ws[i].id = src /\ slot \in DOMAIN ws[i].target /\ ws[i].target[slot] = tgt

Key_a_DO_b == <<"a", " ", "D", "O", " ", "b">>

edgeAdded == Range(connections_added_mine(Mine, Previous))
edgeRemoved == Range(connections_remove_mine(Mine, Previous))
edgeCommon == Range(connections_common(Mine, Previous))

\* C7: an edge key is in edgeAdded iff it is a key of mine and not of
\* previous, in edgeRemoved iff of previous only, in edgeCommon iff of both;
\* the edge a -DO-> b, held by mine only, has the key "a DO b", which is in
\* edgeAdded and in neither of the other two.
C7_EdgeSets ==
  LET mine_keys == {KeyOf(Mine, c) : c \in NextStatementConnections(Mine)}
      previous_keys == {KeyOf(Previous, c) : c \in NextStatementConnections(Previous)}
  IN /\ edgeAdded = mine_keys \ previous_keys
     /\ edgeRemoved = previous_keys \ mine_keys
     /\ edgeCommon = mine_keys \cap previous_keys
     /\ (HasEdge(Mine, <<"a">>, S_DO, <<"b">>)
         /\ ~HasEdge(Previous, <<"a">>, S_DO, <<"b">>))
        => /\ Key_a_DO_b \in Range(get_connections(Mine, Mine))
           /\ Key_a_DO_b \in edgeAdded
           /\ Key_a_DO_b \notin edgeRemoved
           /\ Key_a_DO_b \notin edgeCommon

\* mine holds a -DO-> b, previous holds a with its DO input unattached.
C7_Witness ==
  /\ Synced
  /\ HasEdge(Mine, <<"a">>, S_DO, <<"b">>)
  /\ HasEdge(Previous, <<"a">>, S_DO, Null)
  /\ edgeAdded = {Key_a_DO_b}
  /\ edgeCommon # {}
  /\ edgeRemoved # {}

\* C8: get_connections yields one key per next-statement connection,
\* attached or not, and none for a value (or previous) connection; distinct
\* connections have distinct keys, and each key splits back into its source
\* id, slot name and target id.
C8_OneKeyPerConnection ==
  \A ws \in {Mine, Previous} :
    LET keys == get_connections(ws, ws)
        connections == NextStatementConnections(ws)
    IN /\ Range(keys) = {KeyOf(ws, c) : c \in connections}
       /\ Len(keys) = Cardinality(connections)
       /\ \A c, d \in connections : KeyOf(ws, c) = KeyOf(ws, d) => c = d
       /\ \A c \in connections :
            Split(KeyOf(ws, c), SP)
              = << ws[c[1]].id,
                   IF c[2] = Null THEN S_next ELSE c[2],
                   IF ws[c[1]].target[c[2]] = Null THEN S_none
                   ELSE ws[c[1]].target[c[2]] >>

\* A block with an attached statement input, an unattached next connection
\* and a value input: three keys for two blocks.
C8_Witness ==
  /\ Len(Mine) = 2
  /\ HasEdge(Mine, <<"a">>, S_DO, <<"b">>)
  /\ HasEdge(Mine, <<"a">>, Null, Null)
  /\ HasEdge(Mine, <<"a">>, S_VAL, Null)
  /\ getBlockById(Mine, <<"b">>).type = "stmt"
  /\ Len(get_connections(Mine, Mine)) = 3

\* C9: after a run, a block of mine carries the added class iff its id is not
\* in previous, a block of previous carries the removed class iff its id is
\* not in mine, and a block whose id is in both carries neither on either
\* side.
C9_BlockClasses ==
  Synced =>
    /\ \A i \in 1..Len(Mine) :
         (ADDED \in Mine[i].svgClasses) <=> (Mine[i].id \notin IdsIn(Previous))
    /\ \A i \in 1..Len(Previous) :
         (REMOVED \in Previous[i].svgClasses) <=> (Previous[i].id \notin IdsIn(Mine))
    /\ \A id \in CommonIds :
         /\ getBlockById(Mine, id).svgClasses \cap {ADDED, REMOVED} = {}
         /\ getBlockById(Previous, id).svgClasses \cap {ADDED, REMOVED} = {}

\* An added, a removed and a common block after a run.
C9_Witness ==
  /\ Synced
  /\ \E i \in 1..Len(Mine) : ADDED \in Mine[i].svgClasses
  /\ \E i \in 1..Len(Previous) : REMOVED \in Previous[i].svgClasses
  /\ CommonIds # {}

\* C10: after a run, a next-statement connection of mine is highlighted iff
\* its edge key is in edgeAdded, one of previous iff its key is in
\* edgeRemoved, and a connection whose key is in edgeCommon is highlighted on
\* neither side.
C10_ConnectionHighlights ==
  Synced =>
    /\ \A c \in NextStatementConnections(Mine) :
         /\ Mine[c[1]].highlightPath[c[2]] <=> (KeyOf(Mine, c) \in edgeAdded)
         /\ KeyOf(Mine, c) \in edgeCommon => ~Mine[c[1]].highlightPath[c[2]]
    /\ \A c \in NextStatementConnections(Previous) :
         /\ Previous[c[1]].highlightPath[c[2]] <=> (KeyOf(Previous, c) \in edgeRemoved)
         /\ KeyOf(Previous, c) \in edgeCommon => ~Previous[c[1]].highlightPath[c[2]]

\* After a run: an attached connection highlighted in mine, a connection
\* highlighted in previous, and a common one highlighted in neither.
C10_Witness ==
  /\ Synced
  /\ \E c \in NextStatementConnections(Mine) :
       Mine[c[1]].target[c[2]] # Null /\ Mine[c[1]].highlightPath[c[2]]
  /\ \E c \in NextStatementConnections(Previous) : Previous[c[1]].highlightPath[c[2]]
  /\ \E c \in NextStatementConnections(Mine) :
       KeyOf(Mine, c) \in edgeCommon /\ ~Mine[c[1]].highlightPath[c[2]]

\* C11: the viewport_change a workspace fires as the echo of a scroll
\* command of the scroll listener is consumed by the flag when it is
\* delivered: the flag is cleared and the run issues no scroll command.
C11_EchoConsumed ==
  (batch # <<>> /\ Head(batch).type = VIEWPORT_CHANGE /\ Head(batch).echo) =>
    LET st == scroll(UI, Head(batch))
    IN st.scrolled = {} /\ st.busy = FALSE

\* The index in X's getAllBlocks() of the block the scroll listener chooses:
\* the first one below the top of X's viewport; 0 when there is none.
ChosenIndex(X) ==
  LET below == {i \in 1..Len(Ws(X)) : Ws(X)[i].y > -scrollY[X]}
  IN IF below = {} THEN 0 ELSE CHOOSE i \in below : \A j \in below : i <= j

\* No block with the chosen id exists in the other workspace.
NoCorrespondent(X) ==
  \/ ChosenIndex(X) = 0
  \/ Ws(X)[ChosenIndex(X)].id \notin IdsIn(Ws(Other(X)))

\* A viewport_change event is next to be delivered.
ViewportChangeNext == batch # <<>> /\ Head(batch).type = VIEWPORT_CHANGE

\* This step delivers the next event of the batch.
Delivered == batch # <<>> /\ batch' = Tail(batch)

SelectedNext ==
  batch # <<>> /\ Head(batch).type = SELECTED /\ Head(batch).id # Null

\* The run of the selection listener of the workspace the next event came
\* from.
SelectionRun ==
  IF Head(batch).workspaceId = "mine" THEN myMineSelection(UI, Head(batch))
  ELSE myPreviousSelection(UI, Head(batch))

\* C13: a selected event whose newElementId names a block that the other
\* workspace does not hold makes the selection listener do nothing to the
\* other workspace, and the listener does not throw.
C13_MissingBlockSkipped ==
  (SelectedNext
   /\ Head(batch).id \notin IdsIn(Ws(Other(Head(batch).workspaceId)))) =>
    /\ ~SelectionRun.threw
    /\ SelectionRun.mine = mine_workspace
    /\ SelectionRun.previous = previous_workspace
    /\ SelectionRun.scrollY = scrollY

\* The ids of the blocks of a workspace that carry the search highlight.
Highlighted(ws) ==
  {ws[i].id : i \in {j \in 1..Len(ws) : SEARCH_HIGHLIGHT \in ws[j].svgClasses}}

\* The workspace of one side after the step.
WsNext(side) == IF side = "mine" THEN mine_workspace' ELSE previous_workspace'

\* C14: delivering a selected event that names a block the other workspace
\* Y holds clears the search highlight of all blocks of Y, then highlights
\* that one block, marks it as the current selection and scrolls it into
\* view, and touches nothing of the workspace the event came from; in every
\* state at most one block of a workspace carries the search highlight.
C14_SelectionHighlight ==
  [][/\ (SelectedNext /\ Delivered
         /\ Head(batch).id \in IdsIn(Ws(Other(Head(batch).workspaceId))))
        => LET X == Head(batch).workspaceId
               Y == Other(X)
               id == Head(batch).id
           IN /\ Highlighted(WsNext(Y)) = {id}
              /\ SEARCH_CURRENT \in getBlockById(WsNext(Y), id).svgClasses
              /\ getBlockById(WsNext(Y), id).y >= -(scrollY'[Y])
              /\ WsNext(X) = Ws(X)
              /\ scrollY'[X] = scrollY[X]
     /\ \A side \in Sides : Cardinality(Highlighted(WsNext(side))) <= 1]_vars

\* After two selections one workspace shows the search highlight on the
\* block selected last only, the block selected before still carries the
\* mark of the current selection, and the viewport was moved to the block.
C14_Witness ==
  \E side \in Sides :
    /\ Len(Ws(side)) = 2
    /\ \E i \in 1..2 :
         /\ Highlighted(Ws(side)) = {Ws(side)[i].id}
         /\ SEARCH_CURRENT \in Ws(side)[3 - i].svgClasses
    /\ scrollY[side] = -1

\* C15: a run of show_diffs ends without a TypeError on every pair of
\* workspaces, whether they hold no block or a common block whose fields
\* differ between the two sides.
C15_ShowDiffsCompletes == ~show_diffs(Mine, Previous).threw

\* The field values and field marks of the block of that id are the same in
\* both workspaces.
SameFields(before, after, id) ==
  /\ getBlockById(after, id).value = getBlockById(before, id).value
  /\ getBlockById(after, id).invalidInput = getBlockById(before, id).invalidInput

\* C16: a run of show_diffs leaves every field of a block that only mine
\* holds (added) or only previous holds (removed) as it was: field marks are
\* set or cleared on common blocks only.
C16_OnlyCommonFields ==
  LET st == show_diffs(Mine, Previous)
  IN /\ \A id \in IdsIn(Mine) \ IdsIn(Previous) : SameFields(Mine, st.mine, id)
     /\ \A id \in IdsIn(Previous) \ IdsIn(Mine) :
          SameFields(Previous, st.previous, id)

\* A block that only mine holds still carries an invalid mark from the time
\* it was common, while another block is common.
C16_Witness ==
  /\ CommonIds # {}
  /\ \E id \in IdsIn(Mine) \ IdsIn(Previous) :
       \E n \in DOMAIN getBlockById(Mine, id).invalidInput :
         getBlockById(Mine, id).invalidInput[n]

\* The blocks of a workspace, in order, without their decorations.
Content(ws) ==
  [i \in 1..Len(ws) |->
     [id |-> ws[i].id, type |-> ws[i].type, target |-> ws[i].target,
      value |-> ws[i].value, y |-> ws[i].y]]

\* C20: a run of show_diffs changes decorations only: the blocks, their ids,
\* their connections (edge keys) and their field values are the same after
\* the run in both workspaces, and the calls of difference and intersection
\* leave the id sets and edge-key sets they are given as they were.
C20_OnlyDecorations ==
  LET st == show_diffs(Mine, Previous)
      mine_ids == get_ids(Mine)
      previous_ids == get_ids(Previous)
      mine_connections == get_connections(Mine, Mine)
      previous_connections == get_connections(Previous, Previous)
      Kept(call, setA, setB) == call.setA = setA /\ call.setB = setB
  IN /\ Content(st.mine) = Content(Mine)
     /\ Content(st.previous) = Content(Previous)
     /\ get_ids(st.mine) = mine_ids
     /\ get_ids(st.previous) = previous_ids
     /\ get_connections(st.mine, st.mine) = mine_connections
     /\ get_connections(st.previous, st.previous) = previous_connections
     /\ Kept(differenceCall(mine_ids, previous_ids), mine_ids, previous_ids)
     /\ Kept(differenceCall(previous_ids, mine_ids), previous_ids, mine_ids)
     /\ Kept(intersectionCall(mine_ids, previous_ids), mine_ids, previous_ids)
     /\ Kept(differenceCall(mine_connections, previous_connections),
             mine_connections, previous_connections)
     /\ Kept(differenceCall(previous_connections, mine_connections),
             previous_connections, mine_connections)
     /\ Kept(intersectionCall(previous_connections, mine_connections),
             previous_connections, mine_connections)

\* A run is due that changes decorations of both workspaces, with added,
\* removed and common ids and edge keys.
C20_Witness ==
  /\ ~Synced
  /\ show_diffs(Mine, Previous).mine # Mine
  /\ show_diffs(Mine, Previous).previous # Previous
  /\ ids_added_mine(Mine, Previous) # <<>>
  /\ ids_common(Mine, Previous) # <<>>
  /\ connections_added_mine(Mine, Previous) # <<>>
  /\ connections_remove_mine(Mine, Previous) # <<>>
  /\ connections_common(Mine, Previous) # <<>>

\* The requests in flight.
InFlight == {q \in requests : q.readyState < 4}

\* C17: the storage requests are single-flight: at most one request is in
\* flight, it is the most recently issued one and the one
\* BlocklyStorage.httpRequest_ refers to, so only its response is handled.
C17_SingleFlight ==
  /\ Cardinality(InFlight) <= 1
  /\ \A q \in InFlight : q.id = issued /\ httpRequest_ = q.id

\* A request was made while the one before was in flight: the first was
\* aborted (status 0), the second is in flight.
C17_Witness ==
  /\ \E q \in requests : q.id = 1 /\ q.readyState = 4 /\ q.status = 0
  /\ \E q \in InFlight : q.id = 2

\* The texts no parser accepts.
MalformedTexts == {Text("malformed", <<>>)}

\* One load of a text kept the blocks of both workspaces and showed a message.
Refused(st) ==
  /\ st.alerts # <<>>
  /\ st.mine = mine_workspace
  /\ st.previous = previous_workspace

FailedNext ==
  /\ issued' = issued
  /\ \E q \in requests' : q.readyState = 4 /\ q.status # 200 /\ q \notin requests

\* C19: when a request ends with a status other than 200 the transport
\* failure message is shown, the blocks of both workspaces stay, no change
\* monitor is added and BlocklyStorage.httpRequest_ is null again.
C19_FailureHandled ==
  [][FailedNext =>
       /\ alerted' = HTTPREQUEST_ERROR
       /\ mine_workspace' = mine_workspace
       /\ previous_workspace' = previous_workspace
       /\ monitors' = monitors
       /\ httpRequest_' = NoRequest]_vars

\* A request failed, and a later one went through and installed its monitor.
C19_Witness ==
  /\ \E q \in requests : q.id = 1 /\ q.readyState = 4 /\ q.status = 500
  /\ \E q \in requests : q.id = 2 /\ q.readyState = 4 /\ q.status = 200
  /\ monitors # {}
  /\ httpRequest_ = NoRequest


EchoPending ==
  \/ \E i \in 1..Len(FIRE_QUEUE) : FIRE_QUEUE[i].type = VIEWPORT_CHANGE /\ FIRE_QUEUE[i].echo
  \/ \E i \in 1..Len(batch) : batch[i].type = VIEWPORT_CHANGE /\ batch[i].echo

\* C25: the flag suppresses only echoes: a viewport change caused by the
\* user whose alignment block has a correspondent in the other workspace
\* makes the scroll listener scroll the other workspace, and the flag is up
\* only while an echo of a scroll command waits for delivery.
C25_OnlyEchoesSuppressed ==
  /\ (ViewportChangeNext /\ ~Head(batch).echo
        /\ ~NoCorrespondent(Head(batch).workspaceId))
       => scroll(UI, Head(batch)).scrolled = {Other(Head(batch).workspaceId)}
  /\ busy => EchoPending


\* The XML of the workspace a monitor watches, after the step.
XmlNext(m) == workspaceToDom(WsNext(m.workspace))

\* No request is made and none ends in this step.
NoRequestStep == requests' = requests

\* C22: a change listener added by monitorChanges_ empties the hash and
\* removes itself at the first change that leaves the workspace with another
\* XML than the one captured at start; a change that leaves the XML equal
\* does neither; once removed the listener empties the hash no more: the
\* hash is only emptied in a step that removes a listener.
C22_MonitorClearsHashOnce ==
  [][/\ \A m \in monitors : workspaceToDom(Ws(m.workspace)) = m.startXmlText
     /\ \A m \in monitors :
          IF XmlNext(m) # m.startXmlText
          THEN m \notin monitors' /\ hash' = EmptyText
          ELSE m \in monitors'
     /\ (NoRequestStep /\ \A m \in monitors : XmlNext(m) = m.startXmlText)
          => hash' = hash
     /\ (NoRequestStep /\ hash # EmptyText /\ hash' = EmptyText)
          => \E m \in monitors : m \notin monitors']_vars

\* The link request of one workspace ended well, so the hash held the key and
\* a listener watched the workspace; the workspace then changed: the hash is
\* empty and the listener is gone.
C22_Witness ==
  /\ issued = 1
  /\ \E q \in requests :
       /\ q.name = "xml" /\ q.readyState = 4 /\ q.status = 200
       /\ q.responseText.kind = "key"
       /\ Ws(q.workspace) # <<>>
  /\ hash = EmptyText
  /\ monitors = {}


\* The blocks of a workspace as a load creates them: without decorations.
Undecorated(ws) ==
  [i \in 1..Len(ws) |->
     [ws[i] EXCEPT !.svgClasses = {},
                   !.highlightPath = [s \in DOMAIN @ |-> FALSE],
                   !.invalidInput = [n \in DOMAIN @ |-> FALSE]]]

\* The field of that name has the same serialized value on both sides of
\* the block of that id.
SameValue(id, name) ==
  /\ name \in FieldNames(getBlockById(Mine, id).type)
  /\ name \in FieldNames(getBlockById(Previous, id).type)
  /\ DeepEquals(Get(saveFields(getBlockById(Mine, id), "mine"), name),
                Get(saveFields(getBlockById(Previous, id), "previous"), name))

\* C24: after the run that follows a change the decorations depend on the
\* contents of the two workspaces only: they are the ones a run on the same
\* blocks without decorations gives; and a field carries the invalid mark
\* only if its block is common and its value differs from the other side's.
C24_DecorationsFromContents ==
  Synced =>
    /\ LET st == show_diffs(Undecorated(Mine), Undecorated(Previous))
       IN ~st.threw => (Mine = st.mine /\ Previous = st.previous)
    /\ \A side \in Sides : \A i \in 1..Len(Ws(side)) :
         \A name \in DOMAIN Ws(side)[i].invalidInput :
           Ws(side)[i].invalidInput[name] =>
             /\ Ws(side)[i].id \in CommonIds
             /\ ~SameValue(Ws(side)[i].id, name)


\* The entry of one block in the map save_mergeable returned holds a block
\* only as { id }.
RECURSIVE Flat(_)
Flat(obj) ==
  \A p \in DOMAIN obj.props :
    IF p = S_block THEN DOMAIN obj.props[p].props = {S_id}
    ELSE obj.props[p].t = "object" => Flat(obj.props[p])

\* The blocks of a workspace without their decorations, as a set.
Blocks(ws) == Range(Content(ws))

\* C23: save_mergeable returns a flat map with one entry for every block of
\* the workspace under its id, in which every nested block is { id }, with
\* top_blocks (the ids of the root blocks in order) and mergeable: true;
\* inject_blocks on every entry followed by append for every id of
\* top_blocks creates the blocks the workspace held; and load_mergeable given
\* what save_mergeable returned restores the workspace.
C23_MergeableRoundTrip ==
  \A side \in Sides :
    LET saved_blocks == save_mergeable(Ws(side))
        top == getTopBlocks(Ws(side))
        st == load_json_text_to_workspace(Net, side, Text("saved", Undecorated(Ws(side))))
    IN /\ DOMAIN saved_blocks.props = IdsIn(Ws(side)) \cup {S_top_blocks, S_mergeable}
       /\ \A id \in IdsIn(Ws(side)) :
            /\ saved_blocks.props[id].props[S_id] = JString(id)
            /\ Flat(saved_blocks.props[id])
       /\ saved_blocks.props[S_top_blocks] =
            JArray([i \in 1..Len(top) |-> JString(top[i].id)])
       /\ saved_blocks.props[S_mergeable] = JBoolean(TRUE)
       /\ Blocks(loadedBlocks(saved_blocks)) = Blocks(Ws(side))
       /\ getTopBlocks(Content(loadedBlocks(saved_blocks))) = Content(top)
       /\ ~st.threw
       /\ \A f \in st.fetches \ fetches :
            Blocks(WsOf(loaded(st, f), side)) = Blocks(Ws(side))

====
